---- MODULE Spec2Model ----
(***************************************************************************)
(* Model of process_image (src/entropy_app.py, lines 8-50): per-channel    *)
(* local Shannon entropy over a disk neighbourhood, cross-channel          *)
(* comparison against a tolerance, and highlighting of matching pixels.    *)
(*                                                                         *)
(* Arrays are records [dtype, shape, data]; data maps 0-based index tuples *)
(* to samples.  Buffers live in a heap (a sequence of arrays, the address  *)
(* is the position), and a reference [addr, planes] is either the whole    *)
(* buffer (planes = 0) or the numpy view [:, :, :planes] of it.            *)
(*                                                                         *)
(* Entropy values are float64 in the program; here they are integers in    *)
(* micro-bits (1.0 bit = 1000000), rounded down.  The histograms of the    *)
(* modelled images have at most two occupied bins, for which the float     *)
(* sum does not depend on the bin order, so equal histograms give equal    *)
(* values here exactly when they do in the program.  A tolerance is a      *)
(* record [kind, val] with kind "finite" (val in micro-bits), "inf" or     *)
(* "nan".                                                                  *)
(***************************************************************************)
EXTENDS Integers, Sequences, FiniteSets, TLC

VARIABLES heap, image, radius, tolerance, result, pc, memo

vars == <<heap, image, radius, tolerance, result, pc, memo>>

(* ------------------------------ bounds --------------------------------- *)

\* an image has at most MaxPixels positions (height * width <= MaxPixels)
MaxPixels == 3

\* at most MaxLit samples of an image differ from 0
MaxLit == 1

(* ------------------------------ inputs --------------------------------- *)

\* trailing channel counts of the 3-D inputs
ChannelCounts == {1, 2, 3, 4}

\* radius values handed to process_image (the UI slider gives 1..10)
Radii == {0, 1, 2}

Finite(v) == [kind |-> "finite", val |-> v]

PosInf == [kind |-> "inf", val |-> 0]

NaN == [kind |-> "nan", val |-> 0]

\* tolerance values handed to process_image: 0, 0.1 (the default), 1.0,
\* and the two non-finite floats
Tolerances == {Finite(0), Finite(100000), Finite(1000000), PosInf, NaN}

\* the non-zero sample values of each dtype
LitValues(dtype) == IF dtype = "uint8" THEN {255} ELSE {255, 65535}

Shapes ==
  {<<n>> : n \in 1..MaxPixels}
  \cup {s \in (1..MaxPixels) \X (1..MaxPixels) : s[1] * s[2] <= MaxPixels}
  \cup {s \in (1..MaxPixels) \X (1..MaxPixels) \X ChannelCounts :
          s[1] * s[2] <= MaxPixels}

\* index tuples of an array of the given shape (0-based, as in numpy)
Indices(shape) ==
  IF Len(shape) = 1 THEN {<<i>> : i \in 0..(shape[1] - 1)}
  ELSE IF Len(shape) = 2
       THEN (0..(shape[1] - 1)) \X (0..(shape[2] - 1))
       ELSE (0..(shape[1] - 1)) \X (0..(shape[2] - 1)) \X (0..(shape[3] - 1))

RECURSIVE SubsetsUpTo(_, _)
SubsetsUpTo(S, k) ==
  IF k = 0 THEN {{}}
  ELSE LET smaller == SubsetsUpTo(S, k - 1)
       IN  smaller \cup {T \cup {x} : T \in smaller, x \in S}

MakeArray(dtype, shape, lit, v) ==
  [dtype |-> dtype, shape |-> shape,
   data |-> [i \in Indices(shape) |-> IF i \in lit THEN v ELSE 0]]

\* the decoded image buffers the caller can supply
Images ==
  UNION {UNION {{MakeArray(dtype, shape, lit, v) :
                   lit \in SubsetsUpTo(Indices(shape), MaxLit),
                   v \in LitValues(dtype)} :
                shape \in Shapes} :
         dtype \in {"uint8", "uint16"}}

(* ------------------------------ arrays --------------------------------- *)

ndim(a) == Len(a.shape)

WholeRef(addr) == [addr |-> addr, planes |-> 0]

\* the array seen through a reference
View(h, ref) ==
  LET base == h[ref.addr]
  IN  IF ref.planes = 0 THEN base
      ELSE LET shape == <<base.shape[1], base.shape[2], ref.planes>>
           IN  [dtype |-> base.dtype, shape |-> shape,
                data |-> [i \in Indices(shape) |-> base.data[i]]]

\* np.array(image): a new buffer holding a copy of the argument
np_array(h, ref) ==
  [heap |-> Append(h, View(h, ref)), ref |-> WholeRef(Len(h) + 1)]

\* variant: only the first plane receives the grayscale samples
np_stack3_red_only(a) ==
  LET shape == <<a.shape[1], a.shape[2], 3>>
  IN  [dtype |-> a.dtype, shape |-> shape,
       data |-> [i \in Indices(shape) |->
                   IF i[3] = 0 THEN a.data[<<i[1], i[2]>>] ELSE 0]]

\* np.stack([a] * 3, axis=-1) of a 2-D array
np_stack3(a) ==
  LET shape == <<a.shape[1], a.shape[2], 3>>
  IN  [dtype |-> a.dtype, shape |-> shape,
       data |-> [i \in Indices(shape) |-> a.data[<<i[1], i[2]>>]]]

\* variant: the grayscale branch is missing
normalize_rgba_only(h, ref) ==
  LET a == View(h, ref)
  IN  IF ndim(a) = 3 /\ a.shape[3] = 4
      THEN [heap |-> h, ref |-> [addr |-> ref.addr, planes |-> 3]]
      ELSE [heap |-> h, ref |-> ref]

\* variant: alpha is dropped by keeping the last three planes,
\* image_array[:, :, 1:]
normalize_keep_last3(h, ref) ==
  LET a == View(h, ref)
      shape == <<a.shape[1], a.shape[2], 3>>
  IN  IF ndim(a) = 3 /\ a.shape[3] = 4
      THEN [heap |-> Append(h, [dtype |-> a.dtype, shape |-> shape,
                                data |-> [i \in Indices(shape) |->
                                            a.data[<<i[1], i[2], i[3] + 1>>]]]),
            ref |-> WholeRef(Len(h) + 1)]
      ELSE IF ndim(a) = 2
           THEN [heap |-> Append(h, np_stack3(a)),
                 ref |-> WholeRef(Len(h) + 1)]
           ELSE [heap |-> h, ref |-> ref]

\* "Ensure the image is in RGB format": alpha is dropped by a view of the
\* first three planes, a 2-D array is stacked into a new buffer, anything
\* else is passed on as it is
normalize(h, ref) ==
  LET a == View(h, ref)
  IN  IF ndim(a) = 3 /\ a.shape[3] = 4
      THEN [heap |-> h, ref |-> [addr |-> ref.addr, planes |-> 3]]
      ELSE IF ndim(a) = 2
           THEN [heap |-> Append(h, np_stack3(a)),
                 ref |-> WholeRef(Len(h) + 1)]
           ELSE [heap |-> h, ref |-> ref]

\* image_array[:, :, k] raises IndexError unless the array is 3-D with
\* more than k planes
can_index(a, k) == ndim(a) = 3 /\ k < a.shape[3]

\* image_array[:, :, k]
channel(a, k) ==
  LET shape == <<a.shape[1], a.shape[2]>>
  IN  [dtype |-> a.dtype, shape |-> shape,
       data |-> [i \in Indices(shape) |-> a.data[<<i[1], i[2], k>>]]]

\* skimage img_as_ubyte: uint8 is returned as it is, uint16 is scaled down
\* by floor division by 2^8
img_as_ubyte(a) ==
  IF a.dtype = "uint8" THEN a
  ELSE [dtype |-> "uint8", shape |-> a.shape,
        data |-> [i \in DOMAIN a.data |-> a.data[i] \div 256]]

(* ------------------------------ entropy -------------------------------- *)

\* skimage disk(radius): the offsets (dy, dx) with dy^2 + dx^2 <= radius^2
disk(r) ==
  {d \in ((-r)..r) \X ((-r)..r) : d[1] * d[1] + d[2] * d[2] <= r * r}

\* log2(n) in micro-bits, n = 1..13 (13 = size of disk(2))
Log2Micro ==
  <<0, 1000000, 1584963, 2000000, 2321928, 2584963, 2807355,
    3000000, 3169925, 3321928, 3459432, 3584963, 3700440>>

RECURSIVE SumOver(_, _)
SumOver(f, S) ==
  IF S = {} THEN 0
  ELSE LET x == CHOOSE y \in S : TRUE
       IN  f[x] + SumOver(f, S \ {x})

\* the rank filter's histogram at position p: only in-bounds positions
\* under the footprint are counted
neighbours(a, selem, p) ==
  {q \in DOMAIN a.data : <<q[1] - p[1], q[2] - p[2]>> \in selem}

\* variant: the sign of the sum is wrong, e += p * log2(p)
kernel_entropy_sign(a, selem, p) ==
  LET nb    == neighbours(a, selem, p)
      pop   == Cardinality(nb)
      bins  == {a.data[q] : q \in nb}
      count == [v \in bins |-> Cardinality({q \in nb : a.data[q] = v})]
      term  == [v \in bins |-> count[v] * (Log2Micro[pop] - Log2Micro[count[v]])]
  IN  IF pop = 0 THEN 0 ELSE -(SumOver(term, bins) \div pop)

\* -sum p*log2(p) over the occupied bins, with p = count / pop,
\* i.e. sum count * (log2(pop) - log2(count)) / pop
kernel_entropy(a, selem, p) ==
  LET nb    == neighbours(a, selem, p)
      pop   == Cardinality(nb)
      bins  == {a.data[q] : q \in nb}
      count == [v \in bins |-> Cardinality({q \in nb : a.data[q] = v})]
      term  == [v \in bins |-> count[v] * (Log2Micro[pop] - Log2Micro[count[v]])]
  IN  IF pop = 0 THEN 0 ELSE SumOver(term, bins) \div pop

\* filters.rank.entropy(channel, selem): a 2-D float map
entropy(a, selem) ==
  [p \in DOMAIN a.data |-> kernel_entropy(a, selem, p)]

(* ------------------------------ masking -------------------------------- *)

Abs(x) == IF x < 0 THEN -x ELSE x

\* variant: d <= tol
float_less_or_equal(d, tol) ==
  IF tol.kind = "nan" THEN FALSE
  ELSE IF tol.kind = "inf" THEN TRUE
  ELSE d <= tol.val

\* float comparison d < tol for a finite d: false against nan, true
\* against +inf
float_less(d, tol) ==
  IF tol.kind = "nan" THEN FALSE
  ELSE IF tol.kind = "inf" THEN TRUE
  ELSE d < tol.val

\* variant: the mask marks the positions where every difference exceeds
\* the tolerance
make_mask_exceeding(er, eg, eb, tol) ==
  [p \in DOMAIN er |->
     /\ ~float_less(Abs(er[p] - eg[p]), tol)
     /\ ~float_less(Abs(er[p] - eb[p]), tol)
     /\ ~float_less(Abs(eg[p] - eb[p]), tol)]

make_mask(er, eg, eb, tol) ==
  [p \in DOMAIN er |->
     /\ float_less(Abs(er[p] - eg[p]), tol)
     /\ float_less(Abs(er[p] - eb[p]), tol)
     /\ float_less(Abs(eg[p] - eb[p]), tol)]

HighlightColor == <<255, 0, 0>>

\* variant: highlighted_image = image_array, no copy
array_alias(h, ref) == [heap |-> h, ref |-> ref]

\* variant: the highlighted buffer of the previous call is taken again
\* when it has the right shape, without being filled from image_array
array_copy_reused(h, ref) ==
  LET fresh == View(h, ref)
      old   == IF result.status = "ok"
               THEN View(heap, result.highlighted_image)
               ELSE fresh
  IN  [heap |-> Append(h, IF old.shape = fresh.shape /\ old.dtype = fresh.dtype
                          THEN old ELSE fresh),
       ref |-> WholeRef(Len(h) + 1)]

\* image_array.copy(): a new buffer holding what the reference shows
array_copy(h, ref) ==
  [heap |-> Append(h, View(h, ref)), ref |-> WholeRef(Len(h) + 1)]

\* variant: highlighted_image[mask] = 255
assign_masked_white(h, ref, mask) ==
  LET base == h[ref.addr]
      seen == DOMAIN View(h, ref).data
  IN  [h EXCEPT ![ref.addr].data =
         [i \in DOMAIN base.data |->
            IF i \in seen /\ mask[<<i[1], i[2]>>]
            THEN 255
            ELSE base.data[i]]]

\* highlighted_image[mask] = [255, 0, 0]: writes through the reference
\* into its buffer
assign_masked(h, ref, mask) ==
  LET base == h[ref.addr]
      seen == DOMAIN View(h, ref).data
  IN  [h EXCEPT ![ref.addr].data =
         [i \in DOMAIN base.data |->
            IF i \in seen /\ mask[<<i[1], i[2]>>]
            THEN HighlightColor[i[3] + 1]
            ELSE base.data[i]]]

(* --------------------------- process_image ----------------------------- *)

NoMap == <<>>

NoRef == WholeRef(0)

Raise(h, exc) ==
  [heap |-> h,
   result |-> [status |-> exc, image_array |-> NoRef,
               highlighted_image |-> NoRef, mask |-> NoMap,
               entropy_red |-> NoMap, entropy_green |-> NoMap,
               entropy_blue |-> NoMap]]

\* the body of process_image: the heap it leaves and what it returns
run_process_image(h, img, r, tol) ==
  LET copied == np_array(h, img)
      norm   == normalize(copied.heap, copied.ref)
      image_array == View(norm.heap, norm.ref)
  IN  IF ~(can_index(image_array, 0) /\ can_index(image_array, 1)
           /\ can_index(image_array, 2))
      THEN Raise(norm.heap, "IndexError")
      ELSE
        LET red_channel   == img_as_ubyte(channel(image_array, 0))
            green_channel == img_as_ubyte(channel(image_array, 1))
            blue_channel  == img_as_ubyte(channel(image_array, 2))
            selem         == disk(r)
            entropy_red   == entropy(red_channel, selem)
            entropy_green == entropy(green_channel, selem)
            entropy_blue  == entropy(blue_channel, selem)
            mask == make_mask(entropy_red, entropy_green, entropy_blue, tol)
            hl   == array_copy(norm.heap, norm.ref)
        IN  [heap |-> assign_masked(hl.heap, hl.ref, mask),
             result |-> [status |-> "ok", image_array |-> norm.ref,
                         highlighted_image |-> hl.ref, mask |-> mask,
                         entropy_red |-> entropy_red,
                         entropy_green |-> entropy_green,
                         entropy_blue |-> entropy_blue]]

NoResult == Raise(<<>>, "none").result

(* ------------------------------ caller --------------------------------- *)

NoArray == MakeArray("uint8", <<1>>, {}, 0)

\* the values a call hands back: the contents of the returned buffers and
\* the returned maps
Outputs(h, res) ==
  IF res.status = "ok"
  THEN [status |-> res.status,
        original |-> View(h, res.image_array),
        highlighted |-> View(h, res.highlighted_image),
        mask |-> res.mask,
        entropy_red |-> res.entropy_red,
        entropy_green |-> res.entropy_green,
        entropy_blue |-> res.entropy_blue]
  ELSE [status |-> res.status, original |-> NoArray, highlighted |-> NoArray,
        mask |-> NoMap, entropy_red |-> NoMap, entropy_green |-> NoMap,
        entropy_blue |-> NoMap]

\* memo: the inputs and outputs of one earlier call, kept aside by the
\* caller; between = a call with other inputs has returned since
NoMemo ==
  [set |-> FALSE, image |-> NoArray, radius |-> 0, tolerance |-> NaN,
   outputs |-> Outputs(<<>>, NoResult), between |-> FALSE]

SameInputsAsMemo ==
  /\ memo.set
  /\ memo.image = heap[image.addr]
  /\ memo.radius = radius
  /\ memo.tolerance = tolerance

Init ==
  /\ \E img \in Images : heap = <<img>>
  /\ image = WholeRef(1)
  /\ radius \in Radii
  /\ tolerance \in Tolerances
  /\ result = NoResult
  /\ pc = "start"
  /\ memo = NoMemo

\* one call of process_image(image, radius, tolerance).  The buffers of
\* the previous call stay in the heap until this call's results replace
\* them; the call itself only ever sees its argument.
process_image ==
  /\ pc = "start"
  /\ LET out == run_process_image(<<heap[image.addr]>>, image, radius,
                                  tolerance)
     IN  /\ heap' = out.heap
         /\ result' = out.result
  /\ pc' = "done"
  /\ memo' = IF memo.set /\ ~SameInputsAsMemo
             THEN [memo EXCEPT !.between = TRUE]
             ELSE memo
  /\ UNCHANGED <<image, radius, tolerance>>

Next == process_image

Spec == Init /\ [][Next]_vars

(* ------------------------ sequences of calls --------------------------- *)

\* the inputs of the call sequences: one row of two pixels (grayscale, RGB
\* or RGBA) with at most one non-zero sample
SeqShapes == {<<1, 2>>, <<1, 2, 3>>, <<1, 2, 4>>}

SeqImages ==
  UNION {{MakeArray("uint8", shape, lit, 255) :
            lit \in SubsetsUpTo(Indices(shape), 1)} : shape \in SeqShapes}

SeqRadii == {1}

SeqTolerances == {Finite(100000), Finite(1000000)}

InitSeq ==
  /\ \E img \in SeqImages : heap = <<img>>
  /\ image = WholeRef(1)
  /\ radius \in SeqRadii
  /\ tolerance \in SeqTolerances
  /\ result = NoResult
  /\ pc = "start"
  /\ memo = NoMemo

\* the caller keeps the inputs and outputs of the call that just returned
record_result ==
  /\ pc = "done"
  /\ memo' = [set |-> TRUE, image |-> heap[image.addr], radius |-> radius,
              tolerance |-> tolerance, outputs |-> Outputs(heap, result),
              between |-> FALSE]
  /\ UNCHANGED <<heap, image, radius, tolerance, result, pc>>

\* the caller submits another image and parameters; the outputs of the
\* call before are still alive
next_call ==
  /\ pc = "done"
  /\ \E img \in SeqImages : heap' = [heap EXCEPT ![image.addr] = img]
  /\ radius' \in SeqRadii
  /\ tolerance' \in SeqTolerances
  /\ pc' = "start"
  /\ UNCHANGED <<image, result, memo>>

NextSeq == process_image \/ record_result \/ next_call

SpecSeq == InitSeq /\ [][NextSeq]_vars

(* ------------------------------ claims --------------------------------- *)

Returned == pc = "done" /\ result.status = "ok"

InputImage == heap[image.addr]

Original == View(heap, result.image_array)

Highlighted == View(heap, result.highlighted_image)

Pixel(a, p) == <<a.data[<<p[1], p[2], 0>>], a.data[<<p[1], p[2], 1>>],
                 a.data[<<p[1], p[2], 2>>]>>

\* d < tol as the claims mean it, for a finite non-negative d
StrictlyBelow(d, tol) ==
  \/ tol.kind = "inf"
  \/ tol.kind = "finite" /\ d < tol.val

DiffRG(p) == Abs(result.entropy_red[p] - result.entropy_green[p])

DiffRB(p) == Abs(result.entropy_red[p] - result.entropy_blue[p])

DiffGB(p) == Abs(result.entropy_green[p] - result.entropy_blue[p])

\* C1: the returned mask is true at a position iff the three pairwise
\* absolute differences of the returned entropy maps at that position are
\* all strictly less than the tolerance (equal to the tolerance: false)
C1_MaskIffAllDiffsBelowTolerance ==
  Returned =>
    \A p \in DOMAIN result.mask :
      result.mask[p] <=> /\ StrictlyBelow(DiffRG(p), tolerance)
                         /\ StrictlyBelow(DiffRB(p), tolerance)
                         /\ StrictlyBelow(DiffGB(p), tolerance)

\* a call returned whose mask is false where a difference equals the
\* tolerance and true somewhere else
C1_Witness ==
  /\ Returned
  /\ tolerance.kind = "finite"
  /\ \E p \in DOMAIN result.mask :
       /\ DiffRG(p) = tolerance.val
       /\ DiffGB(p) < tolerance.val
       /\ ~result.mask[p]
  /\ \E p \in DOMAIN result.mask : result.mask[p]

\* C2: a pixel with mask true is (255,0,0) in the highlighted buffer, a
\* pixel with mask false has the three values of the returned original
C2_HighlightMatchesMask ==
  Returned =>
    \A p \in DOMAIN result.mask :
      IF result.mask[p]
      THEN Pixel(Highlighted, p) = <<255, 0, 0>>
      ELSE Pixel(Highlighted, p) = Pixel(Original, p)

\* a call returned with a highlighted pixel that was not red before and
\* an unmasked pixel that is not black
C2_Witness ==
  /\ Returned
  /\ \E p \in DOMAIN result.mask :
       result.mask[p] /\ Pixel(Original, p) # <<255, 0, 0>>
  /\ \E p \in DOMAIN result.mask :
       ~result.mask[p] /\ Pixel(Original, p) # <<0, 0, 0>>

\* the channel count process_image works on after normalization
PlanesAfterNormalization(a) ==
  IF ndim(a) = 2 THEN 3
  ELSE IF ndim(a) = 3 THEN (IF a.shape[3] = 4 THEN 3 ELSE a.shape[3])
  ELSE 0

Malformed(a, r, tol) ==
  \/ r <= 0
  \/ ndim(a) \notin {2, 3}
  \/ ndim(a) = 3 /\ PlanesAfterNormalization(a) # 3
  \/ tol.kind # "finite"

\* C3: a call with malformed input (radius <= 0, not 2-D/3-D, channel
\* count other than 3 after normalization, non-finite tolerance) ends in a
\* ValidationError and returns nothing
C3_MalformedInputRaisesValidationError ==
  (pc = "done" /\ Malformed(InputImage, radius, tolerance))
    => result.status = "ValidationError"

AllTrue(m) == \A p \in DOMAIN m : m[p]

ThreeIdenticalPlanes(a, g) ==
  /\ a.shape = <<g.shape[1], g.shape[2], 3>>
  /\ \A p \in DOMAIN g.data : Pixel(a, p) = <<g.data[p], g.data[p], g.data[p]>>

\* C4 as claimed: for a grayscale input and every tolerance >= 0,
\* tolerance 0 included, the mask is true everywhere
C4_GrayscaleMaskAllTrueFromZero ==
  (pc = "done" /\ ndim(InputImage) = 2
   /\ (tolerance.kind = "inf" \/ (tolerance.kind = "finite" /\ tolerance.val >= 0)))
    => /\ result.status = "ok"
       /\ ThreeIdenticalPlanes(Original, InputImage)
       /\ AllTrue(result.mask)

\* C4 amended: for a grayscale input the original is the input replicated
\* to three identical planes, and for every tolerance > 0 the mask is true
\* everywhere
C4_GrayscaleMaskAllTrueAboveZero ==
  (pc = "done" /\ ndim(InputImage) = 2)
    => /\ result.status = "ok"
       /\ ThreeIdenticalPlanes(Original, InputImage)
       /\ (tolerance.kind = "inf"
           \/ (tolerance.kind = "finite" /\ tolerance.val > 0))
            => AllTrue(result.mask)

\* a grayscale call returned under a finite positive tolerance with a
\* non-constant image whose entropy is not zero everywhere
C4_Witness ==
  /\ Returned
  /\ ndim(InputImage) = 2
  /\ tolerance.kind = "finite" /\ tolerance.val > 0
  /\ \E p \in DOMAIN result.mask : result.entropy_red[p] > 0
  /\ AllTrue(result.mask)

\* the same image with the fourth plane removed
StripAlpha(a) ==
  LET shape == <<a.shape[1], a.shape[2], 3>>
  IN  [dtype |-> a.dtype, shape |-> shape,
       data |-> [i \in Indices(shape) |-> a.data[i]]]

IsRGBA(a) == ndim(a) = 3 /\ a.shape[3] = 4

OutputsFor(img, r, tol) ==
  LET out == run_process_image(<<img>>, WholeRef(1), r, tol)
  IN  Outputs(out.heap, out.result)

\* C5: a call on a 4-plane image returns what a call on the image
\* without its fourth plane returns: original, highlighted, mask and the
\* three entropy maps
C5_AlphaNeverInfluencesOutputs ==
  (pc = "done" /\ IsRGBA(InputImage))
    => Outputs(heap, result) = OutputsFor(StripAlpha(InputImage), radius, tolerance)

\* an RGBA call returned whose alpha plane is not constant and differs
\* from the blue plane
C5_Witness ==
  /\ Returned
  /\ IsRGBA(InputImage)
  /\ \E p \in DOMAIN result.mask, q \in DOMAIN result.mask :
       /\ InputImage.data[<<p[1], p[2], 3>>] # InputImage.data[<<q[1], q[2], 3>>]
       /\ InputImage.data[<<p[1], p[2], 3>>] # InputImage.data[<<p[1], p[2], 2>>]

\* t1 <= t2 on floats (false when either is nan)
TolLeq(t1, t2) ==
  /\ t1.kind # "nan" /\ t2.kind # "nan"
  /\ \/ t2.kind = "inf"
     \/ t1.kind = "finite" /\ t2.kind = "finite" /\ t1.val <= t2.val

TrueCount(m) == Cardinality({p \in DOMAIN m : m[p]})

\* C6: for the same image and radius, every position true in the mask of
\* this tolerance is true in the mask of any tolerance at least as large,
\* so the count of true positions does not decrease
C6_MaskGrowsWithTolerance ==
  Returned =>
    \A t2 \in Tolerances :
      TolLeq(tolerance, t2) =>
        LET m2 == OutputsFor(InputImage, radius, t2).mask
        IN  /\ \A p \in DOMAIN result.mask : result.mask[p] => m2[p]
            /\ TrueCount(result.mask) <= TrueCount(m2)

\* a call returned whose mask has a false position that a larger
\* tolerance in the set turns true, and a true position
C6_Witness ==
  /\ Returned
  /\ \E p \in DOMAIN result.mask : result.mask[p]
  /\ \E t2 \in Tolerances :
       /\ TolLeq(tolerance, t2)
       /\ t2.kind = "finite"
       /\ TrueCount(result.mask)
            < TrueCount(OutputsFor(InputImage, radius, t2).mask)

ValidImage(a) ==
  \/ ndim(a) = 2
  \/ ndim(a) = 3 /\ a.shape[3] \in {3, 4}

\* C7: for a valid H x W input (2-D, or 3-D with 3 or 4 channels) the
\* original and the highlighted buffer have shape (H, W, 3) and the mask
\* and the three entropy maps have shape (H, W)
C7_OutputShapes ==
  (pc = "done" /\ ValidImage(InputImage)) =>
    LET H == InputImage.shape[1]
        W == InputImage.shape[2]
    IN  /\ result.status = "ok"
        /\ Original.shape = <<H, W, 3>>
        /\ DOMAIN Original.data = Indices(<<H, W, 3>>)
        /\ Highlighted.shape = <<H, W, 3>>
        /\ DOMAIN Highlighted.data = Indices(<<H, W, 3>>)
        /\ DOMAIN result.mask = Indices(<<H, W>>)
        /\ DOMAIN result.entropy_red = Indices(<<H, W>>)
        /\ DOMAIN result.entropy_green = Indices(<<H, W>>)
        /\ DOMAIN result.entropy_blue = Indices(<<H, W>>)

\* a call returned for a grayscale image that is not square
C7_Witness ==
  /\ Returned
  /\ ndim(InputImage) = 2
  /\ InputImage.shape[1] # InputImage.shape[2]

\* 0 <= value <= 8.0 bits
InRange(m) == \A p \in DOMAIN m : 0 <= m[p] /\ m[p] <= 8 * 1000000

ExpectedOriginal(a) ==
  IF ndim(a) = 2 THEN np_stack3(a)
  ELSE IF IsRGBA(a) THEN StripAlpha(a)
  ELSE a

\* C9: a call leaves the caller's image buffer as it was, and the
\* returned original holds the normalized input, untouched by the write
\* of the highlight color
C9_NoSideEffectOnInputs ==
  [][process_image =>
       /\ View(heap', image') = View(heap, image)
       /\ result'.status = "ok"
            => View(heap', result'.image_array)
                 = ExpectedOriginal(View(heap, image))]_vars

\* a call returned that wrote the highlight color over a pixel that was
\* not red
C9_Witness ==
  /\ Returned
  /\ \E p \in DOMAIN result.mask :
       /\ result.mask[p]
       /\ Pixel(Highlighted, p) # Pixel(Original, p)
       /\ Pixel(Original, p) = Pixel(ExpectedOriginal(InputImage), p)

====
